---- MODULE Spec2Model ----
(***************************************************************************)
(* Model of the Discord interaction webhook of gitevents-discord-bot:      *)
(* handler (src/api/gitevents-discord.rs), validate_headers,               *)
(* handle_commands and the CommandRequest deserializer                     *)
(* (src/api/_discord.rs), and the error rendering (src/api/_error.rs).     *)
(*                                                                         *)
(* Bytes are integers 0..255; header values, bodies, keys and signatures   *)
(* are sequences of bytes.  Text is written as its ASCII codes.            *)
(***************************************************************************)
EXTENDS Integers, Sequences, FiniteSets, TLC

VARIABLES
    input,      \* how the inbound request was built (the case drawn)
    req,        \* the Request: [sig, ts: Option<bytes>, body: bytes]
    public_key, \* DISCORD_PUBLIC_KEY as read from the environment (text)
    pc,         \* position of the handler invocation
    vres,       \* result of validate_headers, None before it ran
    creq,       \* result of serde_json::from_slice, None before it ran
    cres,       \* result of handle_commands, None before it returned
    resp        \* the wire response, None until into_response ran

vars == <<input, req, public_key, pc, vres, creq, cres, resp>>

----------------------------------------------------------------------------
(* Program constants and model bounds *)

PUBLIC_KEY_LENGTH == 32
SIGNATURE_LENGTH == 64

\* Largest number of members of a generated JSON body.
MaxMembers == 2
\* Largest number of bytes appended to a well-formed key or signature.
MaxExtraBytes == 1
\* Largest number of bytes cut from the end of a well-formed key or signature.
MaxCut == 1

----------------------------------------------------------------------------
(* Option and Result values *)

None == <<>>
Some(v) == <<v>>
IsSome(o) == o # <<>>
Unwrap(o) == o[1]

Ok(v) == [tag |-> "Ok", val |-> v]
Err(e) == [tag |-> "Err", err |-> e]
Panic == [tag |-> "Panic"]
IsOk(r) == r.tag = "Ok"
IsErr(r) == r.tag = "Err"

----------------------------------------------------------------------------
(* Bytes *)

Pow2(k) == 2 ^ k
Bit(b, k) == (b \div Pow2(k)) % 2
FlipBit(b, k) == IF Bit(b, k) = 1 THEN b - Pow2(k) ELSE b + Pow2(k)
FlipAt(s, p, k) == [s EXCEPT ![p] = FlipBit(s[p], k)]

\* bytes s[1..n]
Prefix(s, n) == [i \in 1..n |-> s[i]]

----------------------------------------------------------------------------
(* The Error type and its Display (src/api/_error.rs) *)

InvalidInput(m)    == [kind |-> "InvalidInput",    detail |-> m]
DecodingError(m)   == [kind |-> "DecodingError",   detail |-> m]
DecryptingError(m) == [kind |-> "DecryptingError", detail |-> m]
ParsingError(m)    == [kind |-> "ParsingError",    detail |-> m]

\* #[error("...: {0}")]: the text of an error is its variant's prefix
\* followed by the text of the wrapped error.
ErrorPrefix(e) ==
    CASE e.kind = "InvalidInput"    -> "Invalid Input: "
      [] e.kind = "VarError"        -> "Invalid Environment Variable: "
      [] e.kind = "DecodingError"   -> "Decoding Error: "
      [] e.kind = "DecryptingError" -> "Decrypting Error: "
      [] e.kind = "ParsingError"    -> "Parsing Body Error: "
      [] e.kind = "RequestError"    -> "Request Error: "

ErrorToString(e) == <<ErrorPrefix(e), e.detail>>

----------------------------------------------------------------------------
(* hex::decode *)

\* a hex digit value that knows no upper-case digits
HexValLowerOnly(c) ==
    IF c >= 48 /\ c <= 57 THEN c - 48
    ELSE IF c >= 97 /\ c <= 102 THEN c - 87
    ELSE -1

\* value of one hex digit, -1 when the byte is no hex digit
HexVal(c) ==
    IF c >= 48 /\ c <= 57 THEN c - 48            \* '0'..'9'
    ELSE IF c >= 97 /\ c <= 102 THEN c - 87      \* 'a'..'f'
    ELSE IF c >= 65 /\ c <= 70 THEN c - 55       \* 'A'..'F'
    ELSE -1

FromHex(s) ==
    IF Len(s) % 2 = 1 THEN Err("Odd number of digits")
    ELSE IF \E i \in 1..Len(s) : HexVal(s[i]) < 0
         THEN Err("Invalid character")
    ELSE Ok([i \in 1..(Len(s) \div 2) |->
                16 * HexVal(s[2 * i - 1]) + HexVal(s[2 * i])])

----------------------------------------------------------------------------
(* std::str::from_utf8 *)

IsCont(s, i) == i >= 1 /\ i <= Len(s) /\ s[i] >= 128 /\ s[i] <= 191

\* the number of bytes of the character a lead byte opens, 0 for a byte
\* that opens none
Utf8Width(b) ==
    IF b <= 127 THEN 1
    ELSE IF b >= 194 /\ b <= 223 THEN 2
    ELSE IF b >= 224 /\ b <= 239 THEN 3
    ELSE IF b >= 240 /\ b <= 244 THEN 4
    ELSE 0

\* a well-formed character starts at i
Utf8CharAt(s, i) ==
    LET b == s[i]
        w == Utf8Width(b)
    IN /\ w >= 1
       /\ \A j \in (i + 1)..(i + w - 1) : IsCont(s, j)
       /\ (b = 224 => s[i + 1] >= 160)
       /\ (b = 237 => s[i + 1] <= 159)
       /\ (b = 240 => s[i + 1] >= 144)
       /\ (b = 244 => s[i + 1] <= 143)

\* every byte is the start of a well-formed character or a continuation
\* byte inside one
FromUtf8Ok(s) ==
    \A i \in 1..Len(s) :
        IF IsCont(s, i)
        THEN \E d \in 1..3 :
                /\ i - d >= 1
                /\ Utf8Width(s[i - d]) > d
                /\ Utf8Width(s[i - d]) >= 2
                /\ \A j \in (i - d + 1)..(i - 1) : IsCont(s, j)
                /\ Utf8CharAt(s, i - d)
        ELSE Utf8CharAt(s, i)

----------------------------------------------------------------------------
(* Ed25519 (ed25519_dalek), idealised: the platform holds the one secret   *)
(* key; a signature verifies under a public key exactly when the key is    *)
(* the platform's and the signature is the platform's signature of the     *)
(* message.  The signature of a message is a 64-byte value computed from a *)
(* digest of the message that separates all messages of the model.         *)

\* polynomial digest of m[lo..hi] modulo the prime 46337, with the power
\* of the base for the length of the range
RECURSIVE DigestRange(_, _, _)
DigestRange(m, lo, hi) ==
    IF lo > hi THEN [h |-> 0, w |-> 1]
    ELSE IF lo = hi THEN [h |-> m[lo] + 1, w |-> 257]
    ELSE LET mid == (lo + hi) \div 2
             l == DigestRange(m, lo, mid)
             r == DigestRange(m, mid + 1, hi)
         IN [h |-> (l.h * r.w + r.h) % 46337, w |-> (l.w * r.w) % 46337]

Digest(m) ==
    LET d == DigestRange(m, 1, Len(m)) IN (7 * d.w + d.h) % 46337

\* the platform's signature of message m: R (32 bytes) then s (32 bytes),
\* the three highest bits of the last byte clear
PlatformSign(m) ==
    LET d == Digest(m) IN
    [i \in 1..SIGNATURE_LENGTH |->
        IF i = 1 THEN d % 256
        ELSE IF i = 2 THEN (d \div 256) % 256
        ELSE IF i = 3 THEN (d * 7) % 256
        ELSE IF i = SIGNATURE_LENGTH THEN (d + i) % 32
        ELSE (d + 37 * i) % 256]

\* the platform's public key, another well-formed public key, and a
\* 32-byte string that is not the encoding of a curve point
PlatformKey == [i \in 1..PUBLIC_KEY_LENGTH |-> (11 * i + 3) % 256]
OtherKey    == [i \in 1..PUBLIC_KEY_LENGTH |-> (13 * i + 5) % 256]
NotAPoint   == [i \in 1..PUBLIC_KEY_LENGTH |-> 255]

\* PublicKey::from_bytes on exactly PUBLIC_KEY_LENGTH bytes
PublicKeyFromBytes(b) ==
    IF b = NotAPoint THEN Err("signature error") ELSE Ok(b)

\* Signature::from_bytes on exactly SIGNATURE_LENGTH bytes
SignatureFromBytes(b) ==
    IF b[SIGNATURE_LENGTH] >= 32 THEN Err("signature error") ELSE Ok(b)

\* PublicKey::verify
Verify(pk, msg, sig) ==
    IF pk = PlatformKey /\ sig = PlatformSign(msg)
    THEN Ok("unit") ELSE Err("signature error")

----------------------------------------------------------------------------
(* validate_headers (src/api/_discord.rs) *)

\* &v.as_slice()[..n]: aborts when the slice is shorter than n
SliceTo(v, n) == IF Len(v) < n THEN Panic ELSE Ok(Prefix(v, n))

ValidateHeaders(r, key) ==
    IF IsSome(r.sig) /\ IsSome(r.ts) THEN
      LET public_key_hex == FromHex(key)
          signature_hex  == FromHex(Unwrap(r.sig))
      IN
      IF IsErr(public_key_hex) THEN Err(DecodingError(public_key_hex.err))
      ELSE IF IsErr(signature_hex) THEN Err(DecodingError(signature_hex.err))
      ELSE
        LET pk_slice == SliceTo(public_key_hex.val, PUBLIC_KEY_LENGTH) IN
        IF pk_slice.tag = "Panic" THEN Panic
        ELSE LET pk == PublicKeyFromBytes(pk_slice.val) IN
        IF IsErr(pk) THEN Err(DecryptingError(pk.err))
        ELSE LET sig_slice == SliceTo(signature_hex.val, SIGNATURE_LENGTH) IN
        IF sig_slice.tag = "Panic" THEN Panic
        ELSE LET signature == SignatureFromBytes(sig_slice.val) IN
        IF IsErr(signature) THEN Err(DecryptingError(signature.err))
        ELSE
          LET full_body == Unwrap(r.ts) \o r.body
              v == Verify(pk.val, full_body, signature.val)
          IN IF IsErr(v) THEN Err(DecryptingError(v.err)) ELSE Ok("unit")
    ELSE Err(InvalidInput("You need to provide both signature and timestamp"))

----------------------------------------------------------------------------
(* serde_json over a byte slice, as far as the CommandRequest visitor      *)
(* drives it.  Positions are 1-based indices into the slice; a scanning    *)
(* operator returns the position after what it consumed, 0 on an error.    *)
(* Integers beyond 10^8 in magnitude are kept as the saturated value 10^9. *)

IsWs(c) == c = 32 \/ c = 10 \/ c = 9 \/ c = 13
IsDigit(c) == c >= 48 /\ c <= 57

RECURSIVE SkipWs(_, _)
SkipWs(b, i) == IF i <= Len(b) /\ IsWs(b[i]) THEN SkipWs(b, i + 1) ELSE i

\* the bytes after an opening quote up to and including the closing quote
RECURSIVE ScanString(_, _)
ScanString(b, i) ==
    IF i > Len(b) THEN 0
    ELSE IF b[i] = 34 THEN i + 1                               \* '"'
    ELSE IF b[i] = 92 THEN                                     \* '\'
        IF i + 1 > Len(b) THEN 0
        ELSE IF b[i + 1] \in {34, 92, 47, 98, 102, 110, 114, 116}
             THEN ScanString(b, i + 2)
        ELSE IF b[i + 1] = 117                                 \* 'u'
             THEN IF i + 5 <= Len(b)
                     /\ \A j \in (i + 2)..(i + 5) : HexVal(b[j]) >= 0
                  THEN ScanString(b, i + 6) ELSE 0
        ELSE 0
    ELSE IF b[i] < 32 THEN 0
    ELSE ScanString(b, i + 1)

\* the characters of the string whose content is b[i..e]; an escaped
\* code point is one element (beyond 127 it is no ASCII byte)
RECURSIVE Unescape(_, _, _)
Unescape(b, i, e) ==
    IF i > e THEN <<>>
    ELSE IF b[i] # 92 THEN <<b[i]>> \o Unescape(b, i + 1, e)
    ELSE IF b[i + 1] = 117
         THEN <<4096 * HexVal(b[i + 2]) + 256 * HexVal(b[i + 3])
                + 16 * HexVal(b[i + 4]) + HexVal(b[i + 5])>>
              \o Unescape(b, i + 6, e)
    ELSE << CASE b[i + 1] = 98  -> 8
              [] b[i + 1] = 102 -> 12
              [] b[i + 1] = 110 -> 10
              [] b[i + 1] = 114 -> 13
              [] b[i + 1] = 116 -> 9
              [] OTHER -> b[i + 1] >> \o Unescape(b, i + 2, e)

\* a number starting at i (at '-' or a digit):
\* [next, int, value], next = 0 on an error
RECURSIVE ScanDigits(_, _, _)
ScanDigits(b, i, v) ==
    IF i <= Len(b) /\ IsDigit(b[i])
    THEN ScanDigits(b, i + 1,
                    IF v >= 100000000 THEN 1000000000
                    ELSE 10 * v + (b[i] - 48))
    ELSE [next |-> i, value |-> v]

ScanExponent(b, i) ==
    \* i is the position after 'e' or 'E'
    LET j == IF i <= Len(b) /\ b[i] \in {43, 45} THEN i + 1 ELSE i IN
    IF j <= Len(b) /\ IsDigit(b[j]) THEN ScanDigits(b, j, 0).next ELSE 0

ScanNumber(b, i) ==
    LET neg == b[i] = 45
        d == IF neg THEN i + 1 ELSE i
        bad == [next |-> 0, int |-> FALSE, value |-> 0]
    IN
    IF d > Len(b) \/ ~IsDigit(b[d]) THEN bad
    ELSE
      LET m == IF b[d] = 48 THEN [next |-> d + 1, value |-> 0]
               ELSE ScanDigits(b, d, 0)
          n == m.next
      IN
      IF b[d] = 48 /\ n <= Len(b) /\ IsDigit(b[n]) THEN bad    \* leading 0
      ELSE IF n <= Len(b) /\ b[n] = 46 THEN                    \* '.'
          IF n + 1 <= Len(b) /\ IsDigit(b[n + 1]) THEN
            LET f == ScanDigits(b, n + 1, 0).next IN
            IF f <= Len(b) /\ b[f] \in {101, 69}
            THEN [next |-> ScanExponent(b, f + 1), int |-> FALSE, value |-> 0]
            ELSE [next |-> f, int |-> FALSE, value |-> 0]
          ELSE bad
      ELSE IF n <= Len(b) /\ b[n] \in {101, 69}
           THEN [next |-> ScanExponent(b, n + 1), int |-> FALSE, value |-> 0]
      ELSE [next |-> n, int |-> TRUE,
            value |-> IF neg THEN 0 - m.value ELSE m.value]

MatchIdent(b, i, w) ==
    IF i + Len(w) - 1 <= Len(b) /\ \A j \in 1..Len(w) : b[i + j - 1] = w[j]
    THEN i + Len(w) ELSE 0

\* Deserializer::ignore_value (serde::de::IgnoredAny): one JSON value of
\* any shape starting at or after i
RECURSIVE IgnoreValue(_, _), IgnoreArrayRest(_, _), IgnoreObjectRest(_, _, _)
IgnoreValue(b, i0) ==
    LET i == SkipWs(b, i0) IN
    IF i > Len(b) THEN 0
    ELSE IF b[i] = 110 THEN MatchIdent(b, i, <<110, 117, 108, 108>>)
    ELSE IF b[i] = 116 THEN MatchIdent(b, i, <<116, 114, 117, 101>>)
    ELSE IF b[i] = 102 THEN MatchIdent(b, i, <<102, 97, 108, 115, 101>>)
    ELSE IF b[i] = 45 \/ IsDigit(b[i]) THEN ScanNumber(b, i).next
    ELSE IF b[i] = 34 THEN ScanString(b, i + 1)
    ELSE IF b[i] = 91 THEN                                     \* '['
        LET j == SkipWs(b, i + 1) IN
        IF j <= Len(b) /\ b[j] = 93 THEN j + 1
        ELSE IgnoreArrayRest(b, j)
    ELSE IF b[i] = 123 THEN IgnoreObjectRest(b, i + 1, TRUE)   \* '{'
    ELSE 0

\* an element at i, then "," element ... "]"
IgnoreArrayRest(b, i) ==
    LET v == IgnoreValue(b, i) IN
    IF v = 0 THEN 0
    ELSE LET j == SkipWs(b, v) IN
      IF j > Len(b) THEN 0
      ELSE IF b[j] = 93 THEN j + 1
      ELSE IF b[j] = 44 THEN IgnoreArrayRest(b, j + 1)
      ELSE 0

\* the members of an object after its "{", up to and including its "}"
IgnoreObjectRest(b, i0, first) ==
    LET i == SkipWs(b, i0) IN
    IF i > Len(b) THEN 0
    ELSE IF b[i] = 125 THEN i + 1
    ELSE
      LET k == IF first THEN i
               ELSE IF b[i] = 44 THEN SkipWs(b, i + 1) ELSE 0
      IN
      IF k = 0 \/ k > Len(b) \/ b[k] # 34 THEN 0
      ELSE LET e == ScanString(b, k + 1)
               c == SkipWs(b, e)
           IN
           IF e = 0 \/ c > Len(b) \/ b[c] # 58 THEN 0
           ELSE LET v == IgnoreValue(b, c + 1) IN
                IF v = 0 THEN 0 ELSE IgnoreObjectRest(b, v, FALSE)

\* MapAccess::next_value::<i64>() after the ":" of a member
DeserializeI64(b, i0) ==
    LET i == SkipWs(b, i0) IN
    IF i > Len(b) THEN Err("EOF while parsing a value")
    ELSE IF b[i] = 45 \/ IsDigit(b[i]) THEN
        LET n == ScanNumber(b, i) IN
        IF n.next = 0 THEN Err("invalid number")
        ELSE IF ~n.int THEN Err("invalid type: floating point")
        ELSE Ok([next |-> n.next, value |-> n.value])
    ELSE Err("invalid type")

----------------------------------------------------------------------------
(* CommandRequest and its Deserialize (src/api/_discord.rs) *)

\* a conversion that falls back to Ping for an unknown discriminant
FromI64Defaulting(n) ==
    IF n = 2 THEN Some("ApplicationCommand")
    ELSE IF n = 5 THEN Some("ModalSubmit")
    ELSE Some("Ping")

\* #[derive(FromPrimitive)] InteractionRequestType
FromI64(n) ==
    IF n = 1 THEN Some("Ping")
    ELSE IF n = 2 THEN Some("ApplicationCommand")
    ELSE IF n = 5 THEN Some("ModalSubmit")
    ELSE None

EmptyString == <<>>

\* the loop of visit_map: from position i0 inside the object, the
\* position of the closing "}" and the last value of a "type" member
RECURSIVE VisitMapLoop(_, _, _, _)
VisitMapLoop(b, i0, first, type_field) ==
    LET i == SkipWs(b, i0) IN
    IF i > Len(b) THEN Err("EOF while parsing an object")
    ELSE IF b[i] = 125 THEN Ok([next |-> i, type_field |-> type_field])
    ELSE
      LET k == IF first THEN i
               ELSE IF b[i] = 44 THEN SkipWs(b, i + 1) ELSE 0
      IN
      IF k = 0 THEN Err("expected comma or end of object")
      ELSE IF k > Len(b) THEN Err("EOF while parsing a value")
      ELSE IF b[k] = 125 THEN Err("trailing comma")
      ELSE IF b[k] # 34 THEN Err("key must be a string")
      ELSE
        LET e == ScanString(b, k + 1)
            c == SkipWs(b, e)
        IN
        IF e = 0 THEN Err("invalid string")
        ELSE IF c > Len(b) \/ b[c] # 58 THEN Err("expected colon")
        ELSE IF Unescape(b, k + 1, e - 2) = <<116, 121, 112, 101>> THEN
            LET n == DeserializeI64(b, c + 1) IN
            IF IsErr(n) THEN n
            ELSE VisitMapLoop(b, n.val.next, FALSE, Some(n.val.value))
        ELSE
            LET v == IgnoreValue(b, c + 1) IN
            IF v = 0 THEN Err("invalid value")
            ELSE VisitMapLoop(b, v, FALSE, type_field)

\* CommandVisitor::visit_map after its loop
VisitMapResult(type_field) ==
    IF ~IsSome(type_field) THEN Err("missing field type")
    ELSE
      LET t == FromI64(Unwrap(type_field)) IN
      IF t = Some("Ping") THEN Ok([variant |-> "Ping"])
      ELSE IF t = Some("ApplicationCommand") THEN Ok([variant |-> "NewEvent"])
      ELSE IF t = Some("ModalSubmit")
           THEN Ok([variant |-> "ModalSubmit",
                    fields |-> <<EmptyString, EmptyString, EmptyString,
                                 EmptyString, EmptyString, EmptyString>>])
      ELSE Err("invalid value: integer, expected an integer which represent a Discord interaction")

\* serde_json::from_slice::<CommandRequest>: deserialize_map, the visitor,
\* the end of the map and the end of the input
FromSlice(b) ==
    LET i == SkipWs(b, 1) IN
    IF i > Len(b) THEN Err("EOF while parsing a value")
    ELSE IF b[i] # 123 THEN Err("invalid type")
    ELSE
      LET m == VisitMapLoop(b, i + 1, TRUE, None) IN
      IF IsErr(m) THEN m
      ELSE
        LET r == VisitMapResult(m.val.type_field) IN
        IF IsErr(r) THEN r
        ELSE IF SkipWs(b, m.val.next + 1) <= Len(b)
             THEN Err("trailing characters")
        ELSE r

----------------------------------------------------------------------------
(* handle_commands and the responses (src/api/_discord.rs) *)

\* the match of handle_commands over the decoded CommandRequest
Dispatch(body) ==
    IF body.variant = "Ping" THEN [variant |-> "Pong"]
    ELSE IF body.variant = "NewEvent" THEN [variant |-> "Modal"]
    ELSE [variant |-> "EventFail"]

HandleCommands(b) ==
    LET body == FromSlice(b) IN
    IF IsErr(body) THEN Err(ParsingError(body.err))
    ELSE Ok(Dispatch(body.val))

GetPongJson == [type |-> 1]

GetModalComponentJson(id, label, placeholder, style) ==
    [type |-> 1,
     components |-> << [type |-> 4, custom_id |-> id, label |-> label,
                        style |-> style, min_length |-> 1,
                        max_length |-> 100, placeholder |-> placeholder,
                        required |-> TRUE] >>]

GetModalJson ==
    [type |-> 9,
     data |-> [title |-> "New Event", custom_id |-> "new_event",
               components |-> <<
        GetModalComponentJson("name", "Name", "Event name", 1),
        GetModalComponentJson("description", "Description",
                              "A concise description", 2),
        GetModalComponentJson("location", "Location", "online", 1),
        GetModalComponentJson("date", "Date", "15/12/2022", 1),
        GetModalComponentJson("time", "Time", "12:30pm", 1),
        GetModalComponentJson("duration", "Duration", "1h30m", 1) >>]]

GetMessageSuccessJson(link) ==
    [type |-> 4,
     data |-> [content |-> <<"An event was just created: ", link>>]]

GetMessageFailJson ==
    [type |-> 4,
     data |-> [content |-> "There was an error creating your event",
               flags |-> 64]]

\* impl IntoResponse for CommandResponse
CommandResponseIntoResponse(r) ==
    [status |-> 200,
     content_type |-> "text/json",
     body |-> CASE r.variant = "Pong" -> GetPongJson
                [] r.variant = "Modal" -> GetModalJson
                [] r.variant = "EventSuccess" -> GetMessageSuccessJson(r.link)
                [] r.variant = "EventFail" -> GetMessageFailJson]

\* a status match without the arm for InvalidInput
ErrorStatusAlways500(e) == 500

\* the status match of impl IntoResponse for Error
ErrorStatus(e) == IF e.kind = "InvalidInput" THEN 400 ELSE 500

\* impl IntoResponse for Error
ErrorIntoResponse(e) ==
    [status |-> ErrorStatus(e),
     content_type |-> "text/json",
     body |-> [message |-> ErrorToString(e)]]

----------------------------------------------------------------------------
(* The requests of the model.  A request is built from a description       *)
(* (input): a JSON body rendered from a list of members, or a raw body;    *)
(* a timestamp; the platform's signature of timestamp and body, possibly   *)
(* reshaped; at most one single-bit mutation of the body, the timestamp    *)
(* header or the signature header; the headers present; the configured     *)
(* key; and what the external event-creating action would answer.          *)

HexDigit(v) == IF v < 10 THEN 48 + v ELSE 87 + v
HexDigitUpper(v) == IF v < 10 THEN 48 + v ELSE 55 + v
ToHex(bs) ==
    [i \in 1..(2 * Len(bs)) |->
        IF i % 2 = 1 THEN HexDigit(bs[(i + 1) \div 2] \div 16)
        ELSE HexDigit(bs[i \div 2] % 16)]
ToHexUpper(bs) ==
    [i \in 1..(2 * Len(bs)) |->
        IF i % 2 = 1 THEN HexDigitUpper(bs[(i + 1) \div 2] \div 16)
        ELSE HexDigitUpper(bs[i \div 2] % 16)]

RECURSIVE DecimalDigits(_)
DecimalDigits(n) ==
    IF n < 10 THEN <<48 + n>> ELSE DecimalDigits(n \div 10) \o <<48 + (n % 10)>>
ToDecimal(n) == IF n < 0 THEN <<45>> \o DecimalDigits(0 - n) ELSE DecimalDigits(n)

Quoted(str) == <<34>> \o str \o <<34>>

\* the six fields of the form, in the order of ModalSubmit
FieldIds == <<
    <<110, 97, 109, 101>>,
    <<100, 101, 115, 99, 114, 105, 112, 116, 105, 111, 110>>,
    <<108, 111, 99, 97, 116, 105, 111, 110>>,
    <<100, 97, 116, 101>>,
    <<116, 105, 109, 101>>,
    <<100, 117, 114, 97, 116, 105, 111, 110>> >>

FormField(p, t, v) == [present |-> p, text |-> t, value |-> v]

\* submitted forms: complete; the date missing; the duration a number
FormTable == <<
    << FormField(TRUE, TRUE, <<77, 101, 101, 116, 117, 112>>),
       FormField(TRUE, TRUE, <<65, 32, 116, 97, 108, 107>>),
       FormField(TRUE, TRUE, <<111, 110, 108, 105, 110, 101>>),
       FormField(TRUE, TRUE, <<49, 53, 47, 49, 50, 47, 50, 48, 50, 50>>),
       FormField(TRUE, TRUE, <<49, 50, 58, 51, 48, 112, 109>>),
       FormField(TRUE, TRUE, <<49, 104, 51, 48, 109>>) >>,
    << FormField(TRUE, TRUE, <<77, 101, 101, 116, 117, 112>>),
       FormField(TRUE, TRUE, <<65, 32, 116, 97, 108, 107>>),
       FormField(TRUE, TRUE, <<111, 110, 108, 105, 110, 101>>),
       FormField(FALSE, TRUE, <<>>),
       FormField(TRUE, TRUE, <<49, 50, 58, 51, 48, 112, 109>>),
       FormField(TRUE, TRUE, <<49, 104, 51, 48, 109>>) >>,
    << FormField(TRUE, TRUE, <<77, 101, 101, 116, 117, 112>>),
       FormField(TRUE, TRUE, <<65, 32, 116, 97, 108, 107>>),
       FormField(TRUE, TRUE, <<111, 110, 108, 105, 110, 101>>),
       FormField(TRUE, TRUE, <<49, 53, 47, 49, 50, 47, 50, 48, 50, 50>>),
       FormField(TRUE, TRUE, <<49, 50, 58, 51, 48, 112, 109>>),
       FormField(TRUE, FALSE, <<57, 48>>) >> >>

RECURSIVE JoinComma(_)
JoinComma(ss) ==
    IF ss = <<>> THEN <<>>
    ELSE IF Len(ss) = 1 THEN ss[1]
    ELSE ss[1] \o <<44>> \o JoinComma(Tail(ss))

\* {"type":1,"components":[{"type":4,"custom_id":"<id>","value":<value>}]}
RenderRow(i, f) ==
    <<123, 34, 116, 121, 112, 101, 34, 58, 49, 44, 34, 99, 111, 109, 112, 111, 110, 101, 110, 116, 115, 34, 58, 91, 123, 34, 116, 121, 112, 101, 34, 58, 52, 44, 34, 99, 117, 115, 116, 111, 109, 95, 105, 100, 34, 58, 34>>
    \o FieldIds[i]
    \o <<34, 44, 34, 118, 97, 108, 117, 101, 34, 58>>
    \o (IF f.text THEN Quoted(f.value) ELSE f.value)
    \o <<125, 93, 125>>

\* {"custom_id":"new_event","components":[<row>,...]}
RenderForm(form) ==
    LET present == SelectSeq([i \in 1..6 |-> i], LAMBDA i : form[i].present)
    IN <<123, 34, 99, 117, 115, 116, 111, 109, 95, 105, 100, 34, 58, 34, 110, 101, 119, 95, 101, 118, 101, 110, 116, 34, 44, 34, 99, 111, 109, 112, 111, 110, 101, 110, 116, 115, 34, 58, 91>>
       \o JoinComma([j \in 1..Len(present) |->
                        RenderRow(present[j], form[present[j]])])
       \o <<93, 125>>

Member(k, v, isInt, n, form) ==
    [key |-> k, val |-> v, int |-> isInt, n |-> n, form |-> form]

TypeKey == <<116, 121, 112, 101>>
DataKey == <<100, 97, 116, 97>>

TypeInts == <<1, 2, 5, 0, 3, 4, 6, 99, -1>>

\* the members a generated body is made of: "type" with an integer,
\* "type" with a value that is no integer, and members of other names
MemberTable ==
    [i \in 1..Len(TypeInts) |->
        Member(TypeKey, ToDecimal(TypeInts[i]), TRUE, TypeInts[i], 0)]
    \o << Member(TypeKey, <<49, 46, 48>>, FALSE, 0, 0),
          Member(TypeKey, <<34, 53, 34>>, FALSE, 0, 0),
          Member(TypeKey, <<110, 117, 108, 108>>, FALSE, 0, 0),
          Member(TypeKey, <<91, 53, 93>>, FALSE, 0, 0),
          Member(TypeKey, <<50, 101, 48>>, FALSE, 0, 0),
          Member(<<105, 100>>, <<34, 55, 34>>, FALSE, 0, 0),
          Member(DataKey, <<123, 34, 116, 121, 112, 101, 34, 58, 49, 125>>, FALSE, 0, 0),
          Member(DataKey, RenderForm(FormTable[1]), FALSE, 0, 1),
          Member(DataKey, RenderForm(FormTable[2]), FALSE, 0, 2),
          Member(DataKey, RenderForm(FormTable[3]), FALSE, 0, 3) >>

NMembers == Len(MemberTable)

\* the object with the members ms; with ws, white space between tokens
Render(ms, ws) ==
    LET sp == IF ws THEN <<32>> ELSE <<>>
        one(i) == sp \o Quoted(MemberTable[ms[i]].key) \o sp \o <<58>> \o sp
                  \o MemberTable[ms[i]].val \o sp
    IN <<123>> \o JoinComma([i \in 1..Len(ms) |-> one(i)]) \o <<125>>
       \o (IF ws THEN <<10>> ELSE <<>>)

DistinctKeys(ms) ==
    \A i, j \in 1..Len(ms) :
        i # j => MemberTable[ms[i]].key # MemberTable[ms[j]].key

Docs ==
    { ms \in UNION { [1..k -> 1..NMembers] : k \in 0..MaxMembers } :
        DistinctKeys(ms) }

\* bodies that are not rendered from members
RawBodies == <<
    <<>>,
    <<91, 49, 93>>,
    <<123, 34, 116, 121, 112, 101, 34, 58, 49>>,
    <<123, 34, 116, 121, 112, 101, 34, 58, 49, 125, 120>>,
    <<123, 34, 116, 121, 112, 101, 34, 58, 49, 44, 125>>,
    <<123, 34, 116, 121, 112, 101, 34, 58, 48, 49, 125>>,
    <<123, 116, 121, 112, 101, 58, 49, 125>>,
    <<123, 34, 116, 121, 112, 101, 34, 58, 49, 56, 52, 52, 54, 55, 52, 52, 48, 55, 51, 55, 48, 57, 53, 53, 49, 54, 49, 53, 125>>,
    <<123, 34, 116, 121, 112, 101, 34, 58, 50, 125>>,
    <<255>>,
    <<123, 34, 116, 121, 112, 101, 34, 58, 49, 44, 34, 120, 34, 58, 34, 195, 40, 34, 125>>,
    <<123, 34, 116, 121, 112, 101, 34, 58, 49, 44, 34, 120, 34, 58, 34, 195, 169, 34, 125>> >>

Timestamps == << <<49, 55, 48, 48, 48, 48, 48, 48, 48, 48>>, <<49, 55>> >>

NoMut == [site |-> "none", p |-> 0, k |-> 0]

BaseInput ==
    [members |-> <<1>>, ws |-> FALSE, raw |-> 0, tsx |-> 1, mut |-> NoMut,
     sigshape |-> "good", sign |-> 0, hdrs |-> "both",
     key |-> "good", keyn |-> 0, action |-> "fail"]

\* the body and the timestamp the platform signed
SignedBody(in) ==
    IF in.raw > 0 THEN RawBodies[in.raw] ELSE Render(in.members, in.ws)
SignedTs(in) == Timestamps[in.tsx]
GoodSignature(in) == PlatformSign(SignedTs(in) \o SignedBody(in))

Zeros(n) == [i \in 1..n |-> 0]

\* the text of the signature header before a mutation
ShapedSig(in) ==
    LET g == GoodSignature(in) IN
    CASE in.sigshape = "good"   -> ToHex(g)
      [] in.sigshape = "upper"  -> ToHexUpper(g)
      [] in.sigshape = "cut"    -> ToHex(Prefix(g, SIGNATURE_LENGTH - in.sign))
      [] in.sigshape = "extend" -> ToHex(g \o Zeros(in.sign))
      [] in.sigshape = "nonhex" -> [ToHex(g) EXCEPT ![1] = 122]
      [] in.sigshape = "odd"    -> Prefix(ToHex(g), 2 * SIGNATURE_LENGTH - 1)
      [] in.sigshape = "stale"  -> ToHex(PlatformSign(SignedTs(in) \o <<123, 125>>))

\* the text of DISCORD_PUBLIC_KEY
ShapedKey(in) ==
    CASE in.key = "good"      -> ToHex(PlatformKey)
      [] in.key = "other"     -> ToHex(OtherKey)
      [] in.key = "notapoint" -> ToHex(NotAPoint)
      [] in.key = "cut"       -> ToHex(Prefix(PlatformKey, PUBLIC_KEY_LENGTH - in.keyn))
      [] in.key = "extend"    -> ToHex(PlatformKey \o Zeros(in.keyn))
      [] in.key = "nonhex"    -> [ToHex(PlatformKey) EXCEPT ![1] = 122]
      [] in.key = "odd"       -> Prefix(ToHex(PlatformKey), 2 * PUBLIC_KEY_LENGTH - 1)

Mutated(in, site, s) ==
    IF in.mut.site = site THEN FlipAt(s, in.mut.p, in.mut.k) ELSE s

BuildRequest(in) ==
    [sig  |-> IF in.hdrs \in {"both", "nots"}
              THEN Some(Mutated(in, "sig", ShapedSig(in))) ELSE None,
     ts   |-> IF in.hdrs \in {"both", "nosig"}
              THEN Some(Mutated(in, "ts", SignedTs(in))) ELSE None,
     body |-> Mutated(in, "body", SignedBody(in))]

\* http::HeaderValue holds only these bytes
HeaderByteOk(c) == (c >= 32 /\ c # 127) \/ c = 9

SigShapes ==
    { <<sh, 0>> : sh \in {"good", "upper", "nonhex", "odd", "stale"} }
    \cup { <<"cut", n>> : n \in 1..MaxCut }
    \cup { <<"extend", n>> : n \in 1..MaxExtraBytes }

KeyShapes ==
    { <<sh, 0>> : sh \in {"good", "other", "notapoint", "nonhex", "odd"} }
    \cup { <<"cut", n>> : n \in 1..MaxCut }
    \cup { <<"extend", n>> : n \in 1..MaxExtraBytes }

HeaderSets == {"both", "nosig", "nots", "neither"}

\* the bodies the mutations and the reshaped signatures are applied to:
\* {"type":1} and {"type":5}
SampleDocs == { <<1>>, <<3>> }

DocInputs ==
    { [BaseInput EXCEPT !.members = ms, !.ws = w, !.action = a] :
        ms \in Docs, w \in BOOLEAN, a \in {"ok", "fail"} }

RawInputs ==
    { [BaseInput EXCEPT !.raw = r, !.hdrs = h, !.tsx = t] :
        r \in 1..Len(RawBodies), h \in HeaderSets, t \in 1..Len(Timestamps) }

ShapeInputs ==
    { [BaseInput EXCEPT !.members = ms, !.hdrs = h,
                        !.sigshape = sg[1], !.sign = sg[2],
                        !.key = ks[1], !.keyn = ks[2]] :
        ms \in SampleDocs, h \in HeaderSets, sg \in SigShapes, ks \in KeyShapes }

MutationsOf(in) ==
    LET body == SignedBody(in)
        ts   == SignedTs(in)
        sig  == ShapedSig(in)
    IN { [site |-> "body", p |-> p, k |-> k] : p \in 1..Len(body), k \in 0..7 }
       \cup { m \in { [site |-> "ts", p |-> p, k |-> k] :
                        p \in 1..Len(ts), k \in 0..7 } :
                HeaderByteOk(FlipBit(ts[m.p], m.k)) }
       \cup { m \in { [site |-> "sig", p |-> p, k |-> k] :
                        p \in 1..Len(sig), k \in 0..7 } :
                HeaderByteOk(FlipBit(sig[m.p], m.k)) }

MutationInputs ==
    UNION { { [b EXCEPT !.mut = m] : m \in MutationsOf(b) } :
            b \in { [BaseInput EXCEPT !.members = ms, !.tsx = t] :
                      ms \in SampleDocs, t \in 1..Len(Timestamps) } }

Inputs == DocInputs \cup RawInputs \cup ShapeInputs \cup MutationInputs

----------------------------------------------------------------------------
(* handler (src/api/gitevents-discord.rs): one invocation *)

Init ==
    /\ input \in Inputs
    /\ req = BuildRequest(input)
    /\ public_key = ShapedKey(input)
    /\ pc = "start"
    /\ vres = None
    /\ creq = None
    /\ cres = None
    /\ resp = None

\* lines 9-12: the key is read from the environment and the body is
\* printed as text; from_utf8(..).unwrap() aborts on a body that is no UTF-8
LogBody ==
    /\ pc = "start"
    /\ pc' = IF FromUtf8Ok(req.body) THEN "validate" ELSE "panic"
    /\ UNCHANGED <<input, req, public_key, vres, creq, cres, resp>>

\* a match that goes on to handle_commands whatever validate_headers said
AfterValidateUngated(v) ==
    IF v.tag = "Panic" THEN "panic" ELSE "commands"

\* the arm of the outer match of handler taken for a result of
\* validate_headers
AfterValidate(v) ==
    IF v.tag = "Panic" THEN "panic"
    ELSE IF IsOk(v) THEN "commands"
    ELSE "respond"

\* line 13: validate_headers(&req, &public_key)
Validate ==
    /\ pc = "validate"
    /\ vres' = Some(ValidateHeaders(req, public_key))
    /\ pc' = AfterValidate(Unwrap(vres'))
    /\ UNCHANGED <<input, req, public_key, creq, cres, resp>>

\* line 14, handle_commands line 183: the body is decoded
Decode ==
    /\ pc = "commands"
    /\ creq' = Some(FromSlice(req.body))
    /\ IF IsErr(Unwrap(creq'))
       THEN /\ cres' = Some(Err(ParsingError(Unwrap(creq').err)))
            /\ pc' = "respond"
       ELSE /\ cres' = cres
            /\ pc' = "dispatch"
    /\ UNCHANGED <<input, req, public_key, vres, resp>>

\* handle_commands lines 185-192: the decoded request is dispatched
DispatchStep ==
    /\ pc = "dispatch"
    /\ cres' = Some(Ok(Dispatch(Unwrap(creq).val)))
    /\ pc' = "respond"
    /\ UNCHANGED <<input, req, public_key, vres, creq, resp>>

\* lines 15-27: the value of the match, rendered by into_response
HandlerResponse(v, c) ==
    IF IsErr(v) THEN ErrorIntoResponse(v.err)
    ELSE IF IsErr(c) THEN ErrorIntoResponse(c.err)
    ELSE CommandResponseIntoResponse(c.val)

Respond ==
    /\ pc = "respond"
    /\ resp' = Some(HandlerResponse(Unwrap(vres),
                                    IF IsSome(cres) THEN Unwrap(cres)
                                    ELSE Unwrap(vres)))
    /\ pc' = "done"
    /\ UNCHANGED <<input, req, public_key, vres, creq, cres>>

Next == LogBody \/ Validate \/ Decode \/ DispatchStep \/ Respond

Spec == Init /\ [][Next]_vars

\* handler as a function of the request and the configured key: the wire
\* response, or Panic when the invocation aborts
Handler(r, key) ==
    IF ~FromUtf8Ok(r.body) THEN Panic
    ELSE LET v == ValidateHeaders(r, key) IN
      IF v.tag = "Panic" THEN Panic
      ELSE IF IsErr(v) THEN Ok(HandlerResponse(v, v))
      ELSE Ok(HandlerResponse(v, HandleCommands(r.body)))

----------------------------------------------------------------------------
(* Properties *)

Validated == IsSome(vres)
ValidatedOk == IsSome(vres) /\ Unwrap(vres).tag = "Ok"
ValidatedErr == IsSome(vres) /\ Unwrap(vres).tag = "Err"
ValidateAborted == IsSome(vres) /\ Unwrap(vres).tag = "Panic"
ValidatedErrKind(k) == ValidatedErr /\ Unwrap(vres).err.kind = k
Decoded == IsSome(creq)
DecodedOk == IsSome(creq) /\ IsOk(Unwrap(creq))
DecodedErr == IsSome(creq) /\ IsErr(Unwrap(creq))
Done == pc = "done"
Response == Unwrap(resp)

\* the body is the rendering of the members of the input, unchanged
BodyIsDoc == input.raw = 0 /\ input.mut.site # "body"
\* the "type" members of the body's members
TypeMembers ==
    { i \in 1..Len(input.members) : MemberTable[input.members[i]].key = TypeKey }
\* the body is an object whose "type" member is the integer n
BodyHasType(n) ==
    /\ BodyIsDoc
    /\ \E i \in TypeMembers :
          MemberTable[input.members[i]].int /\ MemberTable[input.members[i]].n = n

\* the request carries both headers, the configured key is the platform's
\* key, and the signature header is the lower-case hex of the platform's
\* signature of the timestamp followed by the body (before any mutation)
BuiltFromValidTriple ==
    input.hdrs = "both" /\ input.key = "good" /\ input.sigshape = "good"

\* the signature header is well-formed hex of 64 bytes that are not the
\* platform's signature of the received timestamp and body
TamperedSignature ==
    /\ IsSome(req.sig) /\ IsSome(req.ts)
    /\ LET h == FromHex(Unwrap(req.sig)) IN
         /\ IsOk(h)
         /\ Len(h.val) = SIGNATURE_LENGTH
         /\ h.val # PlatformSign(Unwrap(req.ts) \o req.body)

(* C1: handle_commands (decoding and dispatch) runs only after
   validate_headers returned Ok for the request; once validate_headers
   returned an error nothing is decoded or dispatched and the response is
   that error's response; a body {"type":5} with a tampered signature is
   answered 500 with the Decrypting Error and is never decoded. *)
C1_VerifyGatesPipeline ==
    /\ (Decoded \/ IsSome(cres) \/ pc \in {"commands", "dispatch"})
          => ValidatedOk
    /\ ValidatedErr =>
          /\ ~Decoded /\ cres = None /\ pc \in {"respond", "done"}
          /\ Done => resp = Some(ErrorIntoResponse(Unwrap(vres).err))
    /\ (BodyHasType(5) /\ TamperedSignature /\ input.key = "good") =>
          /\ ~Decoded /\ cres = None
          /\ pc \in {"start", "validate", "respond", "done"}
          /\ Validated => ValidatedErrKind("DecryptingError")
          /\ Done => /\ Response.status = 500
                     /\ Response.body.message[1] = "Decrypting Error: "

C1_Witness ==
    /\ Done /\ BodyHasType(5) /\ TamperedSignature /\ input.key = "good"
    /\ Response.status = 500 /\ ~Decoded

\* the byte of the signature header the mutation changed, before and after
MutatedSigChar == Unwrap(req.sig)[input.mut.p]
OriginalSigChar == FlipBit(MutatedSigChar, input.mut.k)
IsHexChar(c) == c \in (48..57) \cup (97..102) \cup (65..70)
\* flipping bit 5 of a letter digit changes only its case
IsCaseFlip == input.mut.k = 5 /\ MutatedSigChar \in (97..102) \cup (65..70)

(* C2 as stated: validate_headers succeeds on every valid triple, and every
   single-bit mutation of the body, the timestamp header or the signature
   header makes it fail with Error::DecryptingError. *)
C2_AnyBitFlipIsDecryptingError ==
    (BuiltFromValidTriple /\ Validated) =>
        IF input.mut.site = "none" THEN ValidatedOk
        ELSE ValidatedErrKind("DecryptingError")

(* C2 amended: validate_headers succeeds on every valid triple; a
   single-bit mutation of the body or of the timestamp header makes it fail
   with Error::DecryptingError; a single-bit mutation of the signature
   header makes it fail with Error::DecodingError when the changed
   character is no hex digit, leaves it succeeding when only the case of a
   hex letter changed, and makes it fail with Error::DecryptingError
   otherwise. *)
C2_BitFlipOutcome ==
    (BuiltFromValidTriple /\ Validated) =>
        CASE input.mut.site = "none" -> ValidatedOk
          [] input.mut.site \in {"body", "ts"} ->
                ValidatedErrKind("DecryptingError")
          [] input.mut.site = "sig" ->
                IF ~IsHexChar(MutatedSigChar)
                THEN ValidatedErrKind("DecodingError")
                ELSE IF IsCaseFlip THEN ValidatedOk
                ELSE ValidatedErrKind("DecryptingError")

C2_Witness ==
    /\ BuiltFromValidTriple /\ input.mut.site = "sig" /\ IsCaseFlip
    /\ ValidatedOk /\ Done /\ Response.status = 200

(* C3: whenever the signature header or the timestamp header is absent,
   whatever the body, the key and the other header, validate_headers fails
   with Error::InvalidInput and the handler answers 400 with an
   "Invalid Input" message. *)
C3_MissingHeaderIs400 ==
    input.hdrs # "both" =>
        /\ pc # "panic"
        /\ Validated => ValidatedErrKind("InvalidInput")
        /\ Done => /\ Response.status = 400
                   /\ Response.body.message[1] = "Invalid Input: "

\* both headers present, key and signature header are well-formed hex, and
\* the decoded signature or the decoded key has the wrong length
WrongLength ==
    /\ IsSome(req.sig) /\ IsSome(req.ts)
    /\ IsOk(FromHex(public_key)) /\ IsOk(FromHex(Unwrap(req.sig)))
    /\ \/ Len(FromHex(Unwrap(req.sig)).val) # SIGNATURE_LENGTH
       \/ Len(FromHex(public_key).val) # PUBLIC_KEY_LENGTH

(* C4: a signature header that decodes to other than 64 bytes, or a
   configured key that decodes to other than 32 bytes, never passes
   validate_headers: it fails with the signature-invalid error. *)
C4_WrongLengthRejected ==
    (WrongLength /\ Validated) => ValidatedErrKind("DecryptingError")

\* inputs that carry both headers and fail in different stages: malformed
\* hex in the signature, a signature of another message, a body that does
\* not decode
FailingSamples ==
    { [BaseInput EXCEPT !.sigshape = "nonhex"],
      [BaseInput EXCEPT !.sigshape = "stale"],
      [BaseInput EXCEPT !.members = <<8>>] }

(* C5: any two requests that carry both headers and fail in the pipeline
   get wire responses identical in status and in message. *)
C5_FailuresIndistinguishable ==
    (Done /\ IsSome(req.sig) /\ IsSome(req.ts) /\ Response.status # 200) =>
        \A o \in FailingSamples :
            LET r == Handler(BuildRequest(o), ShapedKey(o)) IN
            (IsOk(r) /\ r.val.status # 200) =>
                /\ r.val.status = Response.status
                /\ r.val.body = Response.body

\* what the deserializer must give for the members of the input
ExpectedVariant ==
    IF BodyHasType(1) THEN "Ping"
    ELSE IF BodyHasType(2) THEN "NewEvent"
    ELSE IF BodyHasType(5) THEN "ModalSubmit"
    ELSE "failure"

(* C6: the decoded CommandRequest is selected by the top-level integer
   "type" member alone: 1 Ping, 2 NewEvent, 5 ModalSubmit, whatever the
   other members, their order and the white space; any other integer, a
   "type" that is no integer and a body without "type" fail to decode and
   are answered 500. *)
C6_DiscriminantDecides ==
    (BodyIsDoc /\ Decoded) =>
        /\ IF ExpectedVariant = "failure" THEN DecodedErr
           ELSE DecodedOk /\ Unwrap(creq).val.variant = ExpectedVariant
        /\ (DecodedErr /\ Done) =>
              /\ Response.status = 500
              /\ Response.body.message[1] = "Parsing Body Error: "

C6_Witness ==
    /\ Done /\ BodyHasType(99) /\ Len(input.members) > 1 /\ DecodedErr
    /\ Response.status = 500

\* the reference the external action answers with when it succeeds
EventLink == "https://gitevents/event/1"

(* C7: dispatch maps Ping to Pong, NewEvent to Modal, and ModalSubmit to
   EventSuccess(reference) when the external action succeeds and to
   EventFail when it fails; it never returns Err. *)
C7_DispatchTotal ==
    (DecodedOk /\ IsSome(cres)) =>
        /\ IsOk(Unwrap(cres))
        /\ LET v == Unwrap(creq).val.variant
               out == Unwrap(cres).val
           IN CASE v = "Ping" -> out = [variant |-> "Pong"]
                [] v = "NewEvent" -> out = [variant |-> "Modal"]
                [] v = "ModalSubmit" ->
                     IF input.action = "ok"
                     THEN out = [variant |-> "EventSuccess", link |-> EventLink]
                     ELSE out = [variant |-> "EventFail"]

(* C8: the response has status 200 exactly when validate_headers succeeded
   and the body decoded (an EventFail outcome included), 400 exactly when
   the failure is Error::InvalidInput, 500 for every other failure; every
   response carries the same Content-Type. *)
C8_StatusByOutcome ==
    Done =>
        /\ Response.status \in {200, 400, 500}
        /\ Response.status = 200 <=> (ValidatedOk /\ DecodedOk)
        /\ Response.status = 400 <=> ValidatedErrKind("InvalidInput")
        /\ Response.status = 500 <=>
              \/ ValidatedErr /\ ~ValidatedErrKind("InvalidInput")
              \/ DecodedErr
        /\ Response.content_type = "text/json"

C8_Witness ==
    /\ Done /\ ValidatedErrKind("InvalidInput") /\ Response.status = 400

\* the form the body carries: the index of its form in FormTable, 0 if none
SubmittedForm ==
    LET fs == { MemberTable[input.members[i]].form :
                  i \in 1..Len(input.members) } \ {0}
    IN IF fs = {} THEN 0 ELSE CHOOSE f \in fs : TRUE

(* C9: the six fields of a decoded ModalSubmit are the six text values the
   body carries, and a body with a missing or mistyped value does not
   decode to ModalSubmit. *)
C9_FormFieldsExtracted ==
    (BodyIsDoc /\ DecodedOk /\ Unwrap(creq).val.variant = "ModalSubmit") =>
        /\ SubmittedForm # 0
        /\ \A i \in 1..6 :
              /\ FormTable[SubmittedForm][i].present
              /\ FormTable[SubmittedForm][i].text
              /\ Unwrap(creq).val.fields[i] = FormTable[SubmittedForm][i].value

(* C10: every invocation of handler ends in a wire response; no request
   makes it abort. *)
C10_NeverAborts == pc # "panic"

====
